---- MODULE Spec2Model ----
(***************************************************************************)
(* A model of src/vector.h: RawMemory<T> (an owner of one raw block) and   *)
(* Vector<T> (a size and a RawMemory).  The heap is a map from block ids   *)
(* to the block's slots; a slot holds a value of T, holds a moved-from     *)
(* object, or holds no object.  Each public operation of Vector is one     *)
(* action; the std:: algorithms it calls are operators on slot sequences.  *)
(***************************************************************************)
EXTENDS Integers, Sequences, FiniteSets

\* ---------------------------------------------------------------- bounds
\* The largest capacity vector "a" is taken to, and the largest vector "b" is.
MaxCap == 4
MaxOther == 1
\* The values of T are 0..MaxVal.
MaxVal == 1

\* ---------------------------------------------------------------- memory
\* A slot of raw memory in which no object lives (operator new's result).
Uninit == -1
\* A live object that has been moved from (valid, value unspecified).
MovedFrom == -2
\* T(): the value of a value-initialised element.
DefaultVal == 0

Values == 0..MaxVal
VecIds == {"a", "b"}
\* The heap has room for one block per vector and the one a call is building.
BlockIds == 1..(Cardinality(VecIds) + 1)
\* buffer_ == nullptr
Null == 0

Min(S) == CHOOSE x \in S : \A y \in S : x <= y

IsLive(x) == x # Uninit

\* The content a read of a slot yields.  A read of raw memory is undefined
\* behaviour: the operation records it as the fault "read_raw", and no call
\* is modelled after a fault.
ReadSlot(x) == x

\* The slots of the block at address buf (nullptr has none).
Block(h, buf) == IF buf = Null THEN << >> ELSE h[buf]

RawSlots(n) == [i \in 1..n |-> Uninit]

FreeIds(h) == {b \in BlockIds : h[b] = << >>}

\* RawMemory::Allocate(n) succeeds: n = 0 needs no block; otherwise operator
\* new must find a free block and may fail (oom).
CanAllocate(h, n, oom) == n = 0 \/ (~oom /\ FreeIds(h) # {})

\* A faulty Allocate: it calls operator new for n = 0 too.
AllocateAlways(h, n) == Min(FreeIds(h))

\* RawMemory::Allocate(n): the address returned.
Allocate(h, n) == IF n = 0 THEN Null ELSE Min(FreeIds(h))

\* A faulty Deallocate: it releases nothing.
DeallocateNothing(h, buf) == h

\* RawMemory::Deallocate(buf): operator delete(nullptr) does nothing.
Deallocate(h, buf) == IF buf = Null THEN h ELSE [h EXCEPT ![buf] = << >>]

\* The heap with block buf holding slots s (nothing to store at nullptr).
Store(h, buf, s) == IF buf = Null THEN h ELSE [h EXCEPT ![buf] = s]

\* ------------------------------------------------------- std:: algorithms
\* Each takes slot sequences and 0-based offsets, as the pointers in the
\* code, and returns the slot sequence written.

\* new (p + at) T(v)
ConstructAt(s, at, v) == [s EXCEPT ![at + 1] = v]

\* std::destroy_n(p + first, n)
DestroyN(s, first, n) ==
    [i \in DOMAIN s |-> IF i > first /\ i <= first + n THEN Uninit ELSE s[i]]

\* std::uninitialized_value_construct_n(p + first, n)
UninitializedValueConstructN(s, first, n) ==
    [i \in DOMAIN s |-> IF i > first /\ i <= first + n THEN DefaultVal ELSE s[i]]

\* A faulty uninitialized_copy_n: it stops one element short.
UninitializedCopyShort(src, sfirst, n, dst, dfirst) ==
    [i \in DOMAIN dst |->
        IF i > dfirst /\ i < dfirst + n
        THEN ReadSlot(src[i - dfirst + sfirst])
        ELSE dst[i]]

\* std::uninitialized_copy_n(src + sfirst, n, dst + dfirst)
UninitializedCopyN(src, sfirst, n, dst, dfirst) ==
    [i \in DOMAIN dst |->
        IF i > dfirst /\ i <= dfirst + n
        THEN ReadSlot(src[i - dfirst + sfirst])
        ELSE dst[i]]

\* The source range after std::uninitialized_move_n(src + first, n, ...):
\* every object moved from is left in its moved-from state.
MovedOut(src, first, n) ==
    [i \in DOMAIN src |->
        IF i > first /\ i <= first + n /\ IsLive(src[i]) THEN MovedFrom ELSE src[i]]

\* A faulty std::copy: it stops one element short.
CopyAssignShort(src, n, dst) ==
    [i \in DOMAIN dst |-> IF i < n THEN ReadSlot(src[i]) ELSE dst[i]]

\* std::copy(src, src + n, dst): copy-assigns onto the first n slots of dst.
CopyAssignN(src, n, dst) ==
    [i \in DOMAIN dst |-> IF i <= n THEN ReadSlot(src[i]) ELSE dst[i]]

\* A faulty std::move: its range ends one element early.
RECURSIVE MoveLeftShort(_, _, _)
MoveLeftShort(s, first, last) ==
    IF first >= last - 1 THEN s
    ELSE MoveLeftShort([s EXCEPT ![first] = ReadSlot(s[first + 1]),
                                 ![first + 1] = IF IsLive(s[first + 1]) THEN MovedFrom ELSE Uninit],
                       first + 1, last)

\* std::move(p + first, p + last, p + first - 1): one move assignment per
\* element, front to back; each source is left moved-from.
RECURSIVE MoveLeft(_, _, _)
MoveLeft(s, first, last) ==
    IF first >= last THEN s
    ELSE MoveLeft([s EXCEPT ![first] = ReadSlot(s[first + 1]),
                            ![first + 1] = IF IsLive(s[first + 1]) THEN MovedFrom ELSE Uninit],
                  first + 1, last)

\* A faulty std::move_backward: its range begins one element late.
RECURSIVE MoveBackwardShort(_, _, _)
MoveBackwardShort(s, first, last) ==
    IF first + 1 >= last THEN s
    ELSE MoveBackwardShort([s EXCEPT ![last + 1] = ReadSlot(s[last]),
                                     ![last] = IF IsLive(s[last]) THEN MovedFrom ELSE Uninit],
                           first, last - 1)

\* std::move_backward(p + first, p + last, p + last + 1): one move
\* assignment per element, back to front.
RECURSIVE MoveBackward(_, _, _)
MoveBackward(s, first, last) ==
    IF first >= last THEN s
    ELSE MoveBackward([s EXCEPT ![last + 1] = ReadSlot(s[last]),
                                ![last] = IF IsLive(s[last]) THEN MovedFrom ELSE Uninit],
                      first, last - 1)

\* ------------------------------------------------------ lifetime accounting
\* The offsets in [first, first + n) of s that hold a live object.
LiveIn(s, first, n) == {i \in DOMAIN s : i > first /\ i <= first + n /\ IsLive(s[i])}
\* The offsets in [first, first + n) of s that hold no object.
DeadIn(s, first, n) == {i \in DOMAIN s : i > first /\ i <= first + n /\ ~IsLive(s[i])}

\* The faults of object lifetime an operation commits.
ConstructFaults(s, first, n) ==
    IF LiveIn(s, first, n) # {} THEN {"construct_on_live"} ELSE {}
DestroyFaults(s, first, n) ==
    IF DeadIn(s, first, n) # {} THEN {"destroy_dead"} ELSE {}
ReadFaults(s, first, n) ==
    IF DeadIn(s, first, n) # {} THEN {"read_raw"} ELSE {}
AssignFaults(s, first, n) ==
    IF DeadIn(s, first, n) # {} THEN {"assign_raw"} ELSE {}
\* ~RawMemory releases a block whose slots are s: objects still alive in it
\* are never destroyed.
ReleaseFaults(s) ==
    IF LiveIn(s, 0, Len(s)) # {} THEN {"release_live"} ELSE {}

\* ------------------------------------------------------------ Vector<T>
\* A Vector: data_.buffer_, data_.capacity_, size_.
Vec(buffer, capacity, size) ==
    [buffer |-> buffer, capacity |-> capacity, size |-> size]

\* Vector() = default
EmptyVec == Vec(Null, 0, 0)

\* What one call did: the heap and the vector after it, how it ended
\* ("ok", "bad_alloc": operator new threw, "throw": an element constructor
\* threw), the branch taken, the index returned, the number of element
\* constructions and destructions, and the lifetime faults committed.
Res(h, x, out, path, ret, ctors, dtors, faults) ==
    [h |-> h, x |-> x, out |-> out, path |-> path, ret |-> ret,
     ctors |-> ctors, dtors |-> dtors, faults |-> faults]

\* A faulty use of const T& value: an element of the vector is read through
\* the reference after it was moved from.
DerefAfterMove(s, v, alias) == IF alias = 0 THEN v ELSE MovedFrom

\* const T& value: the object the reference denotes is element alias - 1 of
\* the vector itself, or (alias = 0) an object outside it with value v.
Deref(s, v, alias) == IF alias = 0 THEN v ELSE ReadSlot(s[alias])

\* A faulty growth policy: room for one more element.
GrownByOne(x) == x.size + 1

\* The capacity a growing append asks for: size_ == 0 ? 1 : size_ * 2
Grown(x) == IF x.size = 0 THEN 1 ELSE x.size * 2

\* A faulty Reserve: it relocates by move whatever T is, so a constructor
\* that throws leaves the elements already relocated moved-from.
ReserveAlwaysMoves(h, x, new_capacity, byMove, oom, failAt) ==
    IF new_capacity <= x.capacity THEN Res(h, x, "ok", "noop", 0, 0, 0, {})
    ELSE IF ~CanAllocate(h, new_capacity, oom)
    THEN Res(h, x, "bad_alloc", "grow", 0, 0, 0, {})
    ELSE
      LET nb == Allocate(h, new_capacity)
          old == Block(h, x.buffer)
          filled == UninitializedCopyN(old, 0, x.size, RawSlots(new_capacity), 0)
      IN IF ~byMove /\ failAt >= 1 /\ failAt <= x.size
         THEN Res(Store(h, x.buffer, MovedOut(old, 0, failAt - 1)), x,
                  "throw", "relocate", 0, failAt - 1, failAt - 1, {})
         ELSE Res(Deallocate(Store(h, nb, filled), x.buffer),
                  Vec(nb, new_capacity, x.size), "ok", "grow", 0,
                  x.size, x.size, {})

\* Vector::Reserve.  byMove is the if-constexpr condition
\* is_nothrow_move_constructible_v<T> || !is_copy_constructible_v<T>;
\* failAt = i > 0 makes the i-th element copy construction of the call throw.
Reserve(h, x, new_capacity, byMove, oom, failAt) ==
    IF new_capacity <= x.capacity THEN Res(h, x, "ok", "noop", 0, 0, 0, {})
    ELSE IF ~CanAllocate(h, new_capacity, oom)
    THEN Res(h, x, "bad_alloc", "grow", 0, 0, 0, {})
    ELSE
      LET nb == Allocate(h, new_capacity)
          old == Block(h, x.buffer)
          raw == RawSlots(new_capacity)
      IN IF ~byMove /\ failAt >= 1 /\ failAt <= x.size
         THEN \* uninitialized_copy_n destroys the copies it made and rethrows;
              \* ~RawMemory releases new_data
              LET part == UninitializedCopyN(old, 0, failAt - 1, raw, 0)
                  undone == DestroyN(part, 0, failAt - 1)
              IN Res(h, x, "throw", "relocate", 0, failAt - 1, failAt - 1,
                     ReadFaults(old, 0, failAt) \cup ReleaseFaults(undone))
         ELSE
           LET filled == UninitializedCopyN(old, 0, x.size, raw, 0)
               src == IF byMove THEN MovedOut(old, 0, x.size) ELSE old
               dead == DestroyN(src, 0, x.size)
               \* data_.Swap(new_data); ~RawMemory releases the old block
               h2 == Deallocate(Store(h, nb, filled), x.buffer)
           IN Res(h2, Vec(nb, new_capacity, x.size), "ok", "grow", 0,
                  x.size, x.size,
                  ReadFaults(old, 0, x.size) \cup DestroyFaults(src, 0, x.size)
                     \cup ReleaseFaults(dead))

\* Vector::Resize
Resize(h, x, new_size, byMove, oom, failAt) ==
    IF new_size < x.size
    THEN LET s == Block(h, x.buffer)
         IN Res(Store(h, x.buffer, DestroyN(s, new_size, x.size - new_size)),
                Vec(x.buffer, x.capacity, new_size), "ok", "shrink", 0,
                0, x.size - new_size, DestroyFaults(s, new_size, x.size - new_size))
    ELSE IF new_size > x.size
    THEN LET r == Reserve(h, x, new_size, byMove, oom, failAt)
         IN IF r.out # "ok" THEN r
            ELSE LET s == Block(r.h, r.x.buffer)
                     n == new_size - x.size
                 IN Res(Store(r.h, r.x.buffer, UninitializedValueConstructN(s, 0, n)),
                        Vec(r.x.buffer, r.x.capacity, new_size), "ok",
                        IF r.path = "grow" THEN "grow" ELSE "extend", 0,
                        r.ctors + n, r.dtors,
                        r.faults \cup ConstructFaults(s, 0, n))
    ELSE Res(h, x, "ok", "noop", 0, 0, 0, {})

\* Vector::PushBack(const T&)
PushBack(h, x, value, alias, byMove, oom, failAt) ==
    LET old == Block(h, x.buffer)
    IN IF x.size = x.capacity
       THEN
         LET ncap == Grown(x)
         IN IF ~CanAllocate(h, ncap, oom) THEN Res(h, x, "bad_alloc", "grow", 0, 0, 0, {})
            ELSE IF failAt = 1 THEN Res(h, x, "throw", "value", 0, 0, 0, {})
            ELSE
              LET nb == Allocate(h, ncap)
                  placed == ConstructAt(RawSlots(ncap), x.size, Deref(old, value, alias))
              IN IF ~byMove /\ failAt >= 2 /\ failAt <= x.size + 1
                 THEN LET part == UninitializedCopyN(old, 0, failAt - 2, placed, 0)
                          undone == DestroyN(part, 0, failAt - 2)
                      IN Res(h, x, "throw", "relocate", 0, failAt - 1, failAt - 2,
                             ReadFaults(old, 0, failAt - 1) \cup ReleaseFaults(undone))
                 ELSE
                   LET filled == UninitializedCopyN(old, 0, x.size, placed, 0)
                       src == IF byMove THEN MovedOut(old, 0, x.size) ELSE old
                       dead == DestroyN(src, 0, x.size)
                       h2 == Deallocate(Store(h, nb, filled), x.buffer)
                   IN Res(h2, Vec(nb, ncap, x.size + 1), "ok", "grow", x.size,
                          x.size + 1, x.size,
                          ReadFaults(old, 0, x.size) \cup DestroyFaults(src, 0, x.size)
                             \cup ReleaseFaults(dead))
       ELSE IF failAt = 1 THEN Res(h, x, "throw", "value", 0, 0, 0, {})
       ELSE Res(Store(h, x.buffer, ConstructAt(old, x.size, Deref(old, value, alias))),
                Vec(x.buffer, x.capacity, x.size + 1), "ok", "inplace", x.size,
                1, 0, ConstructFaults(old, x.size, 1))

\* Vector::PushBack(T&&): value is an object outside the vector; it is moved
\* into the new element, and that move may throw only if T's move may.
PushBackRv(h, x, value, byMove, oom, failAt) ==
    LET old == Block(h, x.buffer)
    IN IF x.size = x.capacity
       THEN
         LET ncap == Grown(x)
         IN IF ~CanAllocate(h, ncap, oom) THEN Res(h, x, "bad_alloc", "grow", 0, 0, 0, {})
            ELSE IF ~byMove /\ failAt = 1 THEN Res(h, x, "throw", "value", 0, 0, 0, {})
            ELSE
              LET nb == Allocate(h, ncap)
                  placed == ConstructAt(RawSlots(ncap), x.size, value)
              IN IF ~byMove /\ failAt >= 2 /\ failAt <= x.size + 1
                 THEN LET part == UninitializedCopyN(old, 0, failAt - 2, placed, 0)
                          undone == DestroyN(part, 0, failAt - 2)
                      IN Res(h, x, "throw", "relocate", 0, failAt - 1, failAt - 2,
                             ReadFaults(old, 0, failAt - 1) \cup ReleaseFaults(undone))
                 ELSE
                   LET filled == UninitializedCopyN(old, 0, x.size, placed, 0)
                       src == IF byMove THEN MovedOut(old, 0, x.size) ELSE old
                       dead == DestroyN(src, 0, x.size)
                       h2 == Deallocate(Store(h, nb, filled), x.buffer)
                   IN Res(h2, Vec(nb, ncap, x.size + 1), "ok", "grow", x.size,
                          x.size + 1, x.size,
                          ReadFaults(old, 0, x.size) \cup DestroyFaults(src, 0, x.size)
                             \cup ReleaseFaults(dead))
       ELSE IF ~byMove /\ failAt = 1 THEN Res(h, x, "throw", "value", 0, 0, 0, {})
       ELSE Res(Store(h, x.buffer, ConstructAt(old, x.size, value)),
                Vec(x.buffer, x.capacity, x.size + 1), "ok", "inplace", x.size,
                1, 0, ConstructFaults(old, x.size, 1))

\* A faulty PopBack: it decrements size_ and destroys nothing.
PopBackNoDestroy(h, x) ==
    IF x.size > 0
    THEN Res(h, Vec(x.buffer, x.capacity, x.size - 1), "ok", "pop", 0, 0, 0, {})
    ELSE Res(h, x, "ok", "noop", 0, 0, 0, {})

\* Vector::PopBack
PopBack(h, x) ==
    IF x.size > 0
    THEN LET s == Block(h, x.buffer)
         IN Res(Store(h, x.buffer, DestroyN(s, x.size - 1, 1)),
                Vec(x.buffer, x.capacity, x.size - 1), "ok", "pop", 0,
                0, 1, DestroyFaults(s, x.size - 1, 1))
    ELSE Res(h, x, "ok", "noop", 0, 0, 0, {})

\* Vector::operator[] and an assignment through the reference returned:
\* v[index] = value, with index < size_
AssignAt(h, x, index, value) ==
    LET s == Block(h, x.buffer)
    IN Res(Store(h, x.buffer, [s EXCEPT ![index + 1] = value]), x, "ok", "write",
           index, 0, 0, AssignFaults(s, index, 1))

\* Vector::EmplaceBack(Args&&...), called with one const T& argument; the
\* reference returned is to the element at index ret.
EmplaceBack(h, x, value, alias, byMove, oom, failAt) ==
    LET old == Block(h, x.buffer)
    IN IF x.size = x.capacity
       THEN
         LET ncap == Grown(x)
         IN IF ~CanAllocate(h, ncap, oom) THEN Res(h, x, "bad_alloc", "grow", 0, 0, 0, {})
            ELSE IF failAt = 1 THEN Res(h, x, "throw", "value", 0, 0, 0, {})
            ELSE
              LET nb == Allocate(h, ncap)
                  placed == ConstructAt(RawSlots(ncap), x.size, Deref(old, value, alias))
              IN IF ~byMove /\ failAt >= 2 /\ failAt <= x.size + 1
                 THEN LET part == UninitializedCopyN(old, 0, failAt - 2, placed, 0)
                          undone == DestroyN(part, 0, failAt - 2)
                      IN Res(h, x, "throw", "relocate", 0, failAt - 1, failAt - 2,
                             ReadFaults(old, 0, failAt - 1) \cup ReleaseFaults(undone))
                 ELSE
                   LET filled == UninitializedCopyN(old, 0, x.size, placed, 0)
                       src == IF byMove THEN MovedOut(old, 0, x.size) ELSE old
                       dead == DestroyN(src, 0, x.size)
                       h2 == Deallocate(Store(h, nb, filled), x.buffer)
                   IN Res(h2, Vec(nb, ncap, x.size + 1), "ok", "grow", (x.size + 1) - 1,
                          x.size + 1, x.size,
                          ReadFaults(old, 0, x.size) \cup DestroyFaults(src, 0, x.size)
                             \cup ReleaseFaults(dead))
       ELSE IF failAt = 1 THEN Res(h, x, "throw", "value", 0, 0, 0, {})
       ELSE Res(Store(h, x.buffer, ConstructAt(old, x.size, Deref(old, value, alias))),
                Vec(x.buffer, x.capacity, x.size + 1), "ok", "inplace", (x.size + 1) - 1,
                1, 0, ConstructFaults(old, x.size, 1))

\* Vector::Emplace(pos, Args&&...), called with one const T& argument;
\* ind = pos - cbegin().  The iterator returned is begin() + ret.
Emplace(h, x, ind, value, alias, byMove, oom, failAt) ==
    LET old == Block(h, x.buffer)
    IN IF x.size = x.capacity
       THEN
         LET ncap == Grown(x)
         IN IF ~CanAllocate(h, ncap, oom) THEN Res(h, x, "bad_alloc", "grow", 0, 0, 0, {})
            ELSE IF failAt = 1 THEN Res(h, x, "throw", "value", 0, 0, 0, {})
            ELSE
              LET nb == Allocate(h, ncap)
                  placed == ConstructAt(RawSlots(ncap), ind, Deref(old, value, alias))
                  head == UninitializedCopyN(old, 0, ind, placed, 0)
              IN IF ~byMove /\ failAt >= 2 /\ failAt <= ind + 1
                 THEN \* the first uninitialized_copy_n throws
                      LET part == UninitializedCopyN(old, 0, failAt - 2, placed, 0)
                          undone == DestroyN(part, 0, failAt - 2)
                      IN Res(h, x, "throw", "relocate", 0, failAt - 1, failAt - 2,
                             ReadFaults(old, 0, failAt - 1) \cup ReleaseFaults(undone))
                 ELSE IF ~byMove /\ failAt >= ind + 2 /\ failAt <= x.size + 1
                 THEN \* the second uninitialized_copy_n throws
                      LET done == failAt - 2 - ind
                          part == UninitializedCopyN(old, ind, done, head, ind + 1)
                          undone == DestroyN(part, ind + 1, done)
                      IN Res(h, x, "throw", "relocate", 0, failAt - 1, done,
                             ReadFaults(old, 0, failAt - 1) \cup ReleaseFaults(undone))
                 ELSE
                   LET filled == UninitializedCopyN(old, ind, x.size - ind, head, ind + 1)
                       src == IF byMove THEN MovedOut(old, 0, x.size) ELSE old
                       dead == DestroyN(src, 0, x.size)
                       h2 == Deallocate(Store(h, nb, filled), x.buffer)
                   IN Res(h2, Vec(nb, ncap, x.size + 1), "ok", "grow", ind,
                          x.size + 1, x.size,
                          ReadFaults(old, 0, x.size) \cup DestroyFaults(src, 0, x.size)
                             \cup ReleaseFaults(dead))
       ELSE IF failAt = 1 THEN Res(h, x, "throw", "value", 0, 0, 0, {})
       ELSE IF ind = x.size
       THEN Res(Store(h, x.buffer, ConstructAt(old, x.size, Deref(old, value, alias))),
                Vec(x.buffer, x.capacity, x.size + 1), "ok", "append", ind,
                1, 0, ConstructFaults(old, x.size, 1))
       ELSE
         LET tmp == Deref(old, value, alias)
             \* new (begin() + size_) T(std::forward<T>(*(end() - 1)))
             tail == [ConstructAt(old, x.size, ReadSlot(old[x.size]))
                        EXCEPT ![x.size] = IF IsLive(old[x.size]) THEN MovedFrom ELSE Uninit]
             shifted == MoveBackward(tail, ind, x.size - 1)
             \* data_[ind] = std::move(tmp)
             assigned == [shifted EXCEPT ![ind + 1] = tmp]
         IN Res(Store(h, x.buffer, assigned),
                Vec(x.buffer, x.capacity, x.size + 1), "ok", "shift", ind,
                1, 0,
                ConstructFaults(old, x.size, 1) \cup ReadFaults(old, ind, x.size - ind)
                   \cup AssignFaults(old, ind, x.size - ind))

\* Vector::Insert(const_iterator, const T&)
Insert(h, x, ind, value, alias, byMove, oom, failAt) ==
    Emplace(h, x, ind, value, alias, byMove, oom, failAt)

\* A faulty Erase: it destroys the last element without moving any.
EraseWithoutShift(h, x, ind) ==
    LET s == Block(h, x.buffer)
    IN Res(Store(h, x.buffer, DestroyN(s, x.size - 1, 1)),
           Vec(x.buffer, x.capacity, x.size - 1), "ok", "erase", ind,
           0, 1, DestroyFaults(s, x.size - 1, 1))

\* Vector::Erase; ind = pos - cbegin()
Erase(h, x, ind) ==
    LET old == Block(h, x.buffer)
        moved == MoveLeft(old, ind + 1, x.size)
    IN Res(Store(h, x.buffer, DestroyN(moved, x.size - 1, 1)),
           Vec(x.buffer, x.capacity, x.size - 1), "ok", "erase", ind,
           0, 1,
           ReadFaults(old, ind + 1, x.size - ind - 1)
              \cup AssignFaults(old, ind, x.size - ind - 1)
              \cup DestroyFaults(moved, x.size - 1, 1))

\* What a call on two vectors did: as Res, with the other vector after it.
Res2(h, x, y, out, path, ctors, dtors, faults) ==
    [h |-> h, x |-> x, y |-> y, out |-> out, path |-> path, ret |-> 0,
     ctors |-> ctors, dtors |-> dtors, faults |-> faults]

\* Vector::Vector(size_t size)
SizedCtor(h, size, oom) ==
    IF ~CanAllocate(h, size, oom) THEN Res(h, EmptyVec, "bad_alloc", "sized", 0, 0, 0, {})
    ELSE LET nb == Allocate(h, size)
             raw == RawSlots(size)
         IN Res(Store(h, nb, UninitializedValueConstructN(raw, 0, size)),
                Vec(nb, size, size), "ok", "sized", 0, size, 0,
                ConstructFaults(raw, 0, size))

\* A faulty copy constructor: it copies the members, so both vectors point
\* at one block.
CopyCtorShallow(h, other, oom, failAt) ==
    Res(h, Vec(other.buffer, other.capacity, other.size), "ok", "copy", 0,
        0, 0, {})

\* Vector::Vector(const Vector& other)
CopyCtor(h, other, oom, failAt) ==
    IF ~CanAllocate(h, other.size, oom)
    THEN Res(h, EmptyVec, "bad_alloc", "copy", 0, 0, 0, {})
    ELSE LET nb == Allocate(h, other.size)
             raw == RawSlots(other.size)
             src == Block(h, other.buffer)
         IN IF failAt >= 1 /\ failAt <= other.size
            THEN \* uninitialized_copy_n undoes its copies; data_ is released
                 LET part == UninitializedCopyN(src, 0, failAt - 1, raw, 0)
                     undone == DestroyN(part, 0, failAt - 1)
                 IN Res(h, EmptyVec, "throw", "copy", 0, failAt - 1, failAt - 1,
                        ReadFaults(src, 0, failAt) \cup ReleaseFaults(undone))
            ELSE Res(Store(h, nb, UninitializedCopyN(src, 0, other.size, raw, 0)),
                     Vec(nb, other.size, other.size), "ok", "copy", 0,
                     other.size, 0, ReadFaults(src, 0, other.size))

\* A faulty move constructor: it takes the members and leaves the source
\* with its own.
MoveCtorKeepsSource(h, other) ==
    Res2(h, Vec(other.buffer, other.capacity, other.size), other,
         "ok", "move", 0, 0, {})

\* Vector::Vector(Vector&& other), with RawMemory(RawMemory&&)
MoveCtor(h, other) ==
    Res2(h, Vec(other.buffer, other.capacity, other.size), Vec(Null, 0, 0),
         "ok", "move", 0, 0, {})

\* Vector::~Vector, then ~RawMemory
Dtor(h, x) ==
    LET s == Block(h, x.buffer)
        dead == DestroyN(s, 0, x.size)
    IN Res(Deallocate(Store(h, x.buffer, dead), x.buffer), EmptyVec, "ok", "dtor", 0,
           0, x.size, DestroyFaults(s, 0, x.size) \cup ReleaseFaults(dead))

\* Vector::Swap, with RawMemory::Swap
Swap(h, x, other) ==
    Res2(h, Vec(other.buffer, other.capacity, other.size),
         Vec(x.buffer, x.capacity, x.size), "ok", "swap", 0, 0, {})

\* A faulty branch rhs.size_ > data_.Capacity(): it destroys the elements
\* and releases the block before it copies rhs.
ReleaseThenCopy(h, x, rhs, oom, failAt) ==
    LET d == Dtor(h, x)
        c == CopyCtor(d.h, rhs, oom, failAt)
    IN Res2(c.h, c.x, rhs, c.out, "realloc", c.ctors, d.dtors,
            c.faults \cup d.faults)

\* The branch rhs.size_ > data_.Capacity() of operator=(const Vector&):
\* Vector rhs_copy(rhs); Swap(rhs_copy); ~Vector(rhs_copy)
CopyAndSwap(h, x, rhs, oom, failAt) ==
    LET c == CopyCtor(h, rhs, oom, failAt)
    IN IF c.out # "ok"
       THEN Res2(h, x, rhs, c.out, "realloc", c.ctors, c.dtors, c.faults)
       ELSE LET sw == Swap(c.h, x, c.x)
                d == Dtor(sw.h, sw.y)
            IN Res2(d.h, sw.x, rhs, "ok", "realloc", c.ctors, d.dtors,
                    c.faults \cup d.faults)

\* A faulty operator=(const Vector&): it copies and swaps whatever the
\* sizes are, so the vector ends with a block of exactly rhs.size_ slots.
CopyAssignAlwaysSwaps(h, x, rhs, same, oom, failAt) ==
    IF same THEN Res2(h, x, rhs, "ok", "self", 0, 0, {})
    ELSE CopyAndSwap(h, x, rhs, oom, failAt)

\* Vector::operator=(const Vector& rhs); same is this == &rhs
CopyAssign(h, x, rhs, same, oom, failAt) ==
    IF same THEN Res2(h, x, rhs, "ok", "self", 0, 0, {})
    ELSE IF rhs.size > x.capacity
    THEN CopyAndSwap(h, x, rhs, oom, failAt)
    ELSE
      LET dst == Block(h, x.buffer)
          src == Block(h, rhs.buffer)
      IN IF rhs.size < x.size
         THEN LET copied == CopyAssignN(src, rhs.size, dst)
                  n == x.size - rhs.size
              IN Res2(Store(h, x.buffer, DestroyN(copied, rhs.size, n)),
                      Vec(x.buffer, x.capacity, rhs.size), rhs, "ok", "shrink",
                      0, n,
                      ReadFaults(src, 0, rhs.size) \cup AssignFaults(dst, 0, rhs.size)
                         \cup DestroyFaults(copied, rhs.size, n))
         ELSE
           LET copied == CopyAssignN(src, x.size, dst)
               n == rhs.size - x.size
           IN IF failAt >= 1 /\ failAt <= n
              THEN \* uninitialized_copy_n undoes its copies; size_ is not updated
                   LET part == UninitializedCopyN(src, x.size, failAt - 1, copied, x.size)
                       undone == DestroyN(part, x.size, failAt - 1)
                   IN Res2(Store(h, x.buffer, undone), x, rhs, "throw", "extend",
                           failAt - 1, failAt - 1,
                           ReadFaults(src, 0, x.size + failAt)
                              \cup AssignFaults(dst, 0, x.size))
              ELSE Res2(Store(h, x.buffer,
                              UninitializedCopyN(src, x.size, n, copied, x.size)),
                        Vec(x.buffer, x.capacity, rhs.size), rhs, "ok", "extend",
                        n, 0,
                        ReadFaults(src, 0, rhs.size) \cup AssignFaults(dst, 0, x.size)
                           \cup ConstructFaults(copied, x.size, n))

\* A faulty operator=(Vector&&): without the test this != &rhs, a
\* self-assignment keeps data_ (RawMemory tests for itself) and runs
\* size_ = rhs.size_; rhs.size_ = 0.
MoveAssignUnguarded(h, x, rhs, same) ==
    IF same THEN Res2(h, Vec(x.buffer, x.capacity, 0), Vec(x.buffer, x.capacity, 0),
                      "ok", "self", 0, 0, {})
    ELSE Res2(h, Vec(rhs.buffer, rhs.capacity, rhs.size), Vec(Null, 0, 0),
              "ok", "move", 0, 0, {})

\* Vector::operator=(Vector&& rhs), with RawMemory::operator=(RawMemory&&);
\* same is this == &rhs
MoveAssign(h, x, rhs, same) ==
    IF same THEN Res2(h, x, rhs, "ok", "self", 0, 0, {})
    ELSE Res2(h, Vec(rhs.buffer, rhs.capacity, rhs.size), Vec(Null, 0, 0),
              "ok", "move", 0, 0, {})

\* ----------------------------------------------------------------- state
VARIABLES
    heap,       \* block id -> the block's slots, << >> for a block not allocated
    vec,        \* vector id -> its data_.buffer_, data_.capacity_, size_
    alive,      \* vector id -> the Vector object exists
    byMove,     \* T is relocated by move (the if-constexpr condition)
    faults,     \* the lifetime faults committed so far
    last        \* the last call: what it was, on what, how it ended

vars == <<heap, vec, alive, byMove, faults, last>>

\* The elements a vector holds: slots [0, size) of its block.
Elems(h, x) == SubSeq(Block(h, x.buffer), 1, x.size)

\* The failures a call may meet: 0 none, -1 operator new throws (if the call
\* allocates), i > 0 the i-th of its n throwing element constructions throws.
Failures(allocates, n) ==
    {0} \cup (IF allocates THEN {-1} ELSE {}) \cup 1..n

NoCall ==
    [op |-> "none", self |-> "a", out |-> "ok", path |-> "none", k |-> 0,
     undoes |-> FALSE, aliased |-> FALSE]

\* The record of a call op on vector self with result r.  Of a call that
\* threw, only how it failed is kept.  k is the index of an Insert or Erase;
\* undoes: the call is an Erase at the index at which the call before it, a
\* successful Insert on the same vector, inserted.
Call(op, self, k, r) ==
    IF r.out = "ok"
    THEN [op |-> op, self |-> self, out |-> r.out, path |-> r.path,
          k |-> IF op \in {"Insert", "Erase"} THEN k ELSE 0,
          undoes |-> /\ op = "Erase" /\ last.op = "Insert"
                     /\ last.self = self /\ last.k = k,
          aliased |-> FALSE]
    ELSE [op |-> "failed", self |-> "a", out |-> r.out, path |-> r.path, k |-> 0,
          undoes |-> FALSE, aliased |-> FALSE]

Init ==
    /\ heap = [b \in BlockIds |-> << >>]
    /\ vec = [i \in VecIds |-> EmptyVec]
    /\ alive = [i \in VecIds |-> FALSE]
    /\ byMove \in BOOLEAN
    /\ faults = {}
    /\ last = NoCall

\* A call on one vector returned r.
Done1(op, self, k, r) ==
    /\ heap' = r.h
    /\ vec' = [vec EXCEPT ![self] = r.x]
    /\ faults' = faults \cup r.faults
    /\ last' = Call(op, self, k, r)
    /\ UNCHANGED <<alive, byMove>>

\* A call taking const T& returned r; a is its (value, alias) argument, and
\* the record tells whether the argument was an element of the vector.
Done1Ref(op, self, k, a, r) ==
    /\ heap' = r.h
    /\ vec' = [vec EXCEPT ![self] = r.x]
    /\ faults' = faults \cup r.faults
    /\ last' = [Call(op, self, k, r) EXCEPT !.aliased = (r.out = "ok" /\ a[2] # 0)]
    /\ UNCHANGED <<alive, byMove>>

\* A call on two vectors returned r.
Done2(op, self, other, r) ==
    /\ heap' = r.h
    /\ vec' = [vec EXCEPT ![self] = r.x, ![other] = r.y]
    /\ faults' = faults \cup r.faults
    /\ last' = Call(op, self, 0, r)
    /\ UNCHANGED <<alive, byMove>>

\* A constructor of vector self returned r: the object exists unless it threw.
Constructed(op, self, r) ==
    /\ heap' = r.h
    /\ faults' = faults \cup r.faults
    /\ last' = Call(op, self, 0, r)
    /\ alive' = [alive EXCEPT ![self] = (r.out = "ok")]
    /\ UNCHANGED byMove

\* The largest capacity vector i is taken to.
CapBound(i) == IF i = "a" THEN MaxCap ELSE MaxOther

\* The call appends in place, or the capacity it grows to is within bound.
GrowthFits(x, bound) == x.size < x.capacity \/ Grown(x) <= bound

\* The (value, alias) arguments of a call taking const T&: a value outside
\* the vector or one of its elements.  A call that throws is tried with one.
Args(x, f) ==
    IF f = 0 THEN (Values \X {0}) \cup ({DefaultVal} \X (1..x.size))
    ELSE {<<DefaultVal, 0>>}

\* The element constructions of an append or insert that may throw: the new
\* element's, and when the vector grows and T is relocated by copy, one per
\* element.
AppendThrows(x, reloc) == IF x.size = x.capacity /\ ~reloc THEN x.size + 1 ELSE 1

\* The element copies of Reserve(n) that may throw.
ReserveThrows(x, n, reloc) == IF n > x.capacity /\ ~reloc THEN x.size ELSE 0

\* The element copies of operator=(const Vector&) that may throw.
AssignThrows(x, rhs, same) ==
    IF same \/ rhs.size < x.size THEN 0
    ELSE IF rhs.size > x.capacity THEN rhs.size
    ELSE rhs.size - x.size

\* The blocks some existing vector's data_ owns.
Owned == {vec[i].buffer : i \in {j \in VecIds : alive[j]}} \ {Null}

\* The allocated blocks no RawMemory owns: nothing can release them.
Leaked == {b \in BlockIds : heap[b] # << >>} \ Owned

\* Calls are modelled while the program has committed no lifetime fault and
\* lost no block: what it does after undefined behaviour is not modelled,
\* and after a leak only destructors run.
Sound == faults = {} /\ Leaked = {}

\* ---------------------------------------------------------------- actions
DefaultConstruct(self) ==
    /\ Sound /\ ~alive[self]
    /\ Constructed("Vector()", self, Res(heap, EmptyVec, "ok", "default", 0, 0, 0, {}))
    /\ vec' = [vec EXCEPT ![self] = EmptyVec]

SizedConstruct(self) ==
    /\ Sound /\ ~alive[self]
    /\ \E size \in 0..CapBound(self), f \in Failures(TRUE, 0) :
         LET r == SizedCtor(heap, size, f = -1)
         IN /\ Constructed("Vector(n)", self, r)
            /\ vec' = [vec EXCEPT ![self] = r.x]

CopyConstruct(self, other) ==
    /\ Sound /\ ~alive[self] /\ alive[other]
    /\ vec[other].size <= CapBound(self)
    /\ \E f \in Failures(vec[other].size > 0, vec[other].size) :
         LET r == CopyCtor(heap, vec[other], f = -1, f)
         IN /\ Constructed("Vector(const&)", self, r)
            /\ vec' = [vec EXCEPT ![self] = r.x]

MoveConstruct(self, other) ==
    /\ Sound /\ ~alive[self] /\ alive[other]
    /\ vec[other].capacity <= CapBound(self)
    /\ LET r == MoveCtor(heap, vec[other])
       IN /\ Constructed("Vector(&&)", self, r)
          /\ vec' = [vec EXCEPT ![self] = r.x, ![other] = r.y]

Destroy(self) ==
    /\ faults = {} /\ alive[self]
    /\ LET r == Dtor(heap, vec[self])
       IN /\ heap' = r.h
          /\ vec' = [vec EXCEPT ![self] = r.x]
          /\ faults' = faults \cup r.faults
          /\ last' = Call("~Vector", self, 0, r)
          /\ alive' = [alive EXCEPT ![self] = FALSE]
          /\ UNCHANGED byMove

DoCopyAssign(self, other) ==
    /\ Sound /\ alive[self] /\ alive[other]
    /\ vec[other].size <= CapBound(self)
    /\ \E f \in Failures(self # other /\ vec[other].size > vec[self].capacity,
                         AssignThrows(vec[self], vec[other], self = other)) :
         Done2("operator=(const&)", self, other,
               CopyAssign(heap, vec[self], vec[other], self = other, f = -1, f))

DoMoveAssign(self, other) ==
    /\ Sound /\ alive[self] /\ alive[other]
    /\ vec[other].capacity <= CapBound(self)
    /\ Done2("operator=(&&)", self, other,
             MoveAssign(heap, vec[self], vec[other], self = other))

DoSwap(self, other) ==
    /\ Sound /\ alive[self] /\ alive[other]
    /\ vec[other].capacity <= CapBound(self)
    /\ vec[self].capacity <= CapBound(other)
    /\ Done2("Swap", self, other, Swap(heap, vec[self], vec[other]))

DoReserve(self) ==
    /\ Sound /\ alive[self]
    /\ \E n \in 0..CapBound(self) :
         \E f \in Failures(n > vec[self].capacity, ReserveThrows(vec[self], n, byMove)) :
           Done1("Reserve", self, 0, Reserve(heap, vec[self], n, byMove, f = -1, f))

DoResize(self) ==
    /\ Sound /\ alive[self]
    /\ \E n \in 0..CapBound(self) :
         \E f \in Failures(n > vec[self].capacity, ReserveThrows(vec[self], n, byMove)) :
           Done1("Resize", self, 0, Resize(heap, vec[self], n, byMove, f = -1, f))

DoPushBack(self) ==
    /\ Sound /\ alive[self] /\ GrowthFits(vec[self], CapBound(self))
    /\ \E f \in Failures(vec[self].size = vec[self].capacity,
                         AppendThrows(vec[self], byMove)) :
         \E a \in Args(vec[self], f) :
           Done1Ref("PushBack(const&)", self, 0, a,
                    PushBack(heap, vec[self], a[1], a[2], byMove, f = -1, f))

DoPushBackRv(self) ==
    /\ Sound /\ alive[self] /\ GrowthFits(vec[self], CapBound(self))
    /\ \E f \in Failures(vec[self].size = vec[self].capacity,
                         IF byMove THEN 0 ELSE AppendThrows(vec[self], byMove)) :
         \E v \in IF f = 0 THEN Values ELSE {DefaultVal} :
           Done1("PushBack(&&)", self, 0,
                 PushBackRv(heap, vec[self], v, byMove, f = -1, f))

DoEmplaceBack(self) ==
    /\ Sound /\ alive[self] /\ GrowthFits(vec[self], CapBound(self))
    /\ \E f \in Failures(vec[self].size = vec[self].capacity,
                         AppendThrows(vec[self], byMove)) :
         \E a \in Args(vec[self], f) :
           Done1Ref("EmplaceBack", self, 0, a,
                    EmplaceBack(heap, vec[self], a[1], a[2], byMove, f = -1, f))

DoPopBack(self) ==
    /\ Sound /\ alive[self]
    /\ Done1("PopBack", self, 0, PopBack(heap, vec[self]))

DoAssignAt(self) ==
    /\ Sound /\ alive[self]
    /\ \E index \in 0..(vec[self].size - 1), v \in Values :
         Done1("operator[]", self, 0, AssignAt(heap, vec[self], index, v))

DoInsert(self) ==
    /\ Sound /\ alive[self] /\ GrowthFits(vec[self], CapBound(self))
    /\ \E ind \in 0..vec[self].size,
          f \in Failures(vec[self].size = vec[self].capacity,
                         AppendThrows(vec[self], byMove)) :
         \E a \in Args(vec[self], f) :
           Done1Ref("Insert", self, ind, a,
                    Insert(heap, vec[self], ind, a[1], a[2], byMove, f = -1, f))

DoErase(self) ==
    /\ Sound /\ alive[self] /\ vec[self].size > 0
    /\ \E ind \in 0..(vec[self].size - 1) :
         Done1("Erase", self, ind, Erase(heap, vec[self], ind))

Next ==
    \/ \E self \in VecIds :
         \/ DefaultConstruct(self)
         \/ SizedConstruct(self)
         \/ Destroy(self)
         \/ DoReserve(self)
         \/ DoResize(self)
         \/ DoPushBack(self)
         \/ DoPushBackRv(self)
         \/ DoEmplaceBack(self)
         \/ DoPopBack(self)
         \/ DoAssignAt(self)
         \/ DoInsert(self)
         \/ DoErase(self)
    \/ \E self \in VecIds, other \in VecIds :
         \/ CopyConstruct(self, other)
         \/ MoveConstruct(self, other)
         \/ DoCopyAssign(self, other)
         \/ DoMoveAssign(self, other)
         \/ DoSwap(self, other)

Spec == Init /\ [][Next]_vars

\* The program with the single vector "a".
NextSingle ==
    \/ DefaultConstruct("a")
    \/ SizedConstruct("a")
    \/ Destroy("a")
    \/ DoReserve("a")
    \/ DoResize("a")
    \/ DoPushBack("a")
    \/ DoPushBackRv("a")
    \/ DoEmplaceBack("a")
    \/ DoPopBack("a")
    \/ DoAssignAt("a")
    \/ DoInsert("a")
    \/ DoErase("a")
    \/ DoCopyAssign("a", "a")
    \/ DoMoveAssign("a", "a")
    \/ DoSwap("a", "a")

SpecSingle == Init /\ [][NextSingle]_vars

\* The runs in which no allocation and no element operation fails.
NextNoFail == Next /\ last'.out = "ok"

SpecNoFail == Init /\ [][NextNoFail]_vars

\* ------------------------------------------------------------ properties
\* The vectors a call can be made on: the object exists, and the program has
\* committed no fault and lost no block.
Callable == {i \in VecIds : alive[i] /\ Sound}

\* The value of a const T& argument before the call.
ArgValue(x, a) == Deref(Block(heap, x.buffer), a[1], a[2])

\* s with v inserted before 0-based index k; s without its element k.
InsertAt(s, k, v) == SubSeq(s, 1, k) \o <<v>> \o SubSeq(s, k + 1, Len(s))
RemoveAt(s, k) == SubSeq(s, 1, k) \o SubSeq(s, k + 2, Len(s))

\* Slots [0, size) of the vector's block hold a live object and slots
\* [size, capacity) hold none.
WellFormed(h, x) ==
    LET s == Block(h, x.buffer)
    IN /\ Len(s) = x.capacity
       /\ x.size <= x.capacity
       /\ \A i \in 1..x.capacity : IsLive(s[i]) <=> i <= x.size

\* C1: after every sequence of calls whose preconditions hold, slots
\* [0, Size()) of each vector's block hold a live element, slots
\* [Size(), Capacity()) hold none, and no slot was constructed twice without
\* a destroy in between.
SlotsLiveExactlyBelowSize ==
    /\ "construct_on_live" \notin faults
    /\ \A i \in VecIds : alive[i] => WellFormed(heap, vec[i])

\* C2: Resize(n) with n > Size() keeps the elements in place, appends
\* n - Size() default-valued elements and sets Size() to n; Resize back to
\* the old size then yields the original sequence.
ResizeUpAppendsDefaults ==
    \A i \in Callable : \A n \in 0..CapBound(i) :
      LET x == vec[i]
          r == Resize(heap, x, n, byMove, FALSE, 0)
          back == Resize(r.h, r.x, x.size, byMove, FALSE, 0)
      IN n > x.size =>
           /\ r.out = "ok" /\ r.x.size = n
           /\ Elems(r.h, r.x) = Elems(heap, x) \o [j \in 1..(n - x.size) |-> DefaultVal]
           /\ Elems(back.h, back.x) = Elems(heap, x)

\* C3: in a run in which nothing fails, once every Vector is destroyed
\* every element constructed has been destroyed exactly once and every
\* block allocated has been released exactly once; no block is ever owned
\* by two vectors.
AllDestroyedReleasesAll ==
    /\ \A i \in VecIds, j \in VecIds :
         (i # j /\ alive[i] /\ alive[j] /\ vec[i].buffer # Null)
            => vec[i].buffer # vec[j].buffer
    /\ (\A i \in VecIds : ~alive[i])
         => /\ \A b \in BlockIds : heap[b] = << >>
            /\ faults \cap {"release_live", "destroy_dead"} = {}

\* C4: when an element construction or copy throws during a call, every
\* element the call constructed in the new block is destroyed exactly once
\* before the block is released.
FailedCallDestroysWhatItBuilt ==
    last.out = "throw" => faults \cap {"release_live", "destroy_dead"} = {}

\* C5: for a type relocated by copy, a relocation copy that throws during
\* Reserve or during the growth of PushBack, EmplaceBack, Emplace or Insert
\* leaves the vector as before the call: same block, capacity, size and
\* elements, and the new block is released.
RelocationFailureLeavesVector ==
    \A i \in Callable :
      LET x == vec[i]
          Kept(r) == r.out = "throw" /\ r.path = "relocate" /\ r.x = x /\ r.h = heap
      IN ~byMove =>
           /\ \A n \in 0..CapBound(i), f \in 1..x.size :
                n > x.capacity => Kept(Reserve(heap, x, n, byMove, FALSE, f))
           /\ \A f \in 2..(x.size + 1), a \in Args(x, 0) :
                (x.size = x.capacity /\ GrowthFits(x, CapBound(i))) =>
                  /\ Kept(PushBack(heap, x, a[1], a[2], byMove, FALSE, f))
                  /\ \A w \in Values : Kept(PushBackRv(heap, x, w, byMove, FALSE, f))
                  /\ Kept(EmplaceBack(heap, x, a[1], a[2], byMove, FALSE, f))
                  /\ \A ind \in 0..x.size :
                       /\ Kept(Emplace(heap, x, ind, a[1], a[2], byMove, FALSE, f))
                       /\ Kept(Insert(heap, x, ind, a[1], a[2], byMove, FALSE, f))

C5Witness ==
    /\ last.out = "throw" /\ last.path = "relocate"
    /\ ~byMove /\ alive["a"] /\ vec["a"].size >= 2

\* C6: when operator new fails in a call that needs more capacity, the
\* failure propagates and the vector has the size, capacity and elements it
\* had; in copy assignment rhs is unchanged too; a constructor that fails
\* leaves no block behind.
AllocationFailureLeavesVector ==
    /\ \A i \in Callable :
         LET x == vec[i]
             Kept(r) == r.out = "bad_alloc" /\ r.x = x /\ r.h = heap
         IN /\ \A n \in 0..CapBound(i) :
                 n > x.capacity =>
                   /\ Kept(Reserve(heap, x, n, byMove, TRUE, 0))
                   /\ Kept(Resize(heap, x, n, byMove, TRUE, 0))
            /\ \A a \in Args(x, 0) :
                 x.size = x.capacity =>
                   /\ Kept(PushBack(heap, x, a[1], a[2], byMove, TRUE, 0))
                   /\ \A w \in Values : Kept(PushBackRv(heap, x, w, byMove, TRUE, 0))
                   /\ Kept(EmplaceBack(heap, x, a[1], a[2], byMove, TRUE, 0))
                   /\ \A ind \in 0..x.size :
                        Kept(Insert(heap, x, ind, a[1], a[2], byMove, TRUE, 0))
            /\ \A j \in Callable :
                 vec[j].size > x.capacity =>
                   LET r == CopyAssign(heap, x, vec[j], i = j, TRUE, 0)
                   IN Kept(r) /\ r.y = vec[j]
    /\ \A i \in VecIds : (~alive[i] /\ Sound) =>
         /\ \A n \in 1..CapBound(i) :
              LET r == SizedCtor(heap, n, TRUE)
              IN r.out = "bad_alloc" /\ r.h = heap
         /\ \A j \in Callable :
              vec[j].size > 0 =>
                LET r == CopyCtor(heap, vec[j], TRUE, 0)
                IN r.out = "bad_alloc" /\ r.h = heap

C6Witness ==
    /\ last.out = "bad_alloc" /\ last.path = "realloc"
    /\ \E i \in Callable, j \in Callable : vec[j].size > vec[i].capacity

\* C7: Insert/Emplace at index k of value v yields s[0..k) ++ [v] ++
\* s[k..size), increases Size() by one and returns the position of index k,
\* whose element equals v, on the growth path and on the in-place path.
InsertYieldsSequence ==
    \A i \in Callable :
      LET x == vec[i]
      IN GrowthFits(x, CapBound(i)) =>
           \A ind \in 0..x.size, a \in Args(x, 0) :
             LET v == ArgValue(x, a)
                 Inserted(r) ==
                   /\ r.out = "ok" /\ r.faults = {}
                   /\ r.path = (IF x.size = x.capacity THEN "grow"
                                ELSE IF ind = x.size THEN "append" ELSE "shift")
                   /\ Elems(r.h, r.x) = InsertAt(Elems(heap, x), ind, v)
                   /\ r.x.size = x.size + 1
                   /\ r.ret = ind
                   /\ Block(r.h, r.x.buffer)[r.ret + 1] = v
             IN /\ Inserted(Insert(heap, x, ind, a[1], a[2], byMove, FALSE, 0))
                /\ Inserted(Emplace(heap, x, ind, a[1], a[2], byMove, FALSE, 0))

C7Witness ==
    /\ last.op = "Insert" /\ last.path = "shift" /\ last.k = 0
    /\ vec[last.self].size = 3

\* C8: Erase at index k < Size() yields s without element k, the others in
\* order; Size() decreases by one, Capacity() is unchanged, one element is
\* destroyed, and the position returned is index k: the element that
\* followed, or end().
EraseYieldsSequence ==
    \A i \in Callable :
      LET x == vec[i]
          s == Elems(heap, x)
      IN \A ind \in 0..(x.size - 1) :
           LET r == Erase(heap, x, ind)
           IN /\ r.out = "ok" /\ r.faults = {}
              /\ Elems(r.h, r.x) = RemoveAt(s, ind)
              /\ r.x.size = x.size - 1
              /\ r.x.capacity = x.capacity /\ r.x.buffer = x.buffer
              /\ r.dtors = 1 /\ WellFormed(r.h, r.x)
              /\ r.ret = ind
              /\ IF ind = x.size - 1 THEN r.ret = r.x.size
                 ELSE Block(r.h, r.x.buffer)[r.ret + 1] = s[ind + 2]

C8Witness ==
    /\ last.op = "Erase" /\ last.k = 0 /\ vec[last.self].size = 2

\* C9: Insert at index k of any value, then Erase at index k, returns the
\* vector to its original elements and size.
InsertThenEraseRestores ==
    \A i \in Callable :
      LET x == vec[i]
      IN GrowthFits(x, CapBound(i)) =>
           \A ind \in 0..x.size, a \in Args(x, 0) :
             LET r == Insert(heap, x, ind, a[1], a[2], byMove, FALSE, 0)
                 e == Erase(r.h, r.x, r.ret)
             IN /\ r.out = "ok" /\ e.out = "ok" /\ e.faults = {}
                /\ Elems(e.h, e.x) = Elems(heap, x)
                /\ e.x.size = x.size
                /\ e.x.capacity >= x.capacity

C9Witness ==
    /\ last.op = "Erase" /\ last.undoes /\ vec[last.self].size >= 2
    /\ last.k < vec[last.self].size

\* C10: PushBack(v) and EmplaceBack(v) increase Size() by one, make the
\* last element equal to v and keep the elements held before, in order,
\* whether or not the call reallocates.
PushBackAppends ==
    \A i \in Callable :
      LET x == vec[i]
      IN GrowthFits(x, CapBound(i)) =>
           \A a \in Args(x, 0) :
             LET v == ArgValue(x, a)
                 Appended(r, w) ==
                   /\ r.out = "ok" /\ r.faults = {}
                   /\ r.path = (IF x.size = x.capacity THEN "grow" ELSE "inplace")
                   /\ r.x.size = x.size + 1
                   /\ Elems(r.h, r.x) = Append(Elems(heap, x), w)
                   /\ r.ret = x.size
             IN /\ Appended(PushBack(heap, x, a[1], a[2], byMove, FALSE, 0), v)
                /\ \A w \in Values :
                     Appended(PushBackRv(heap, x, w, byMove, FALSE, 0), w)
                /\ Appended(EmplaceBack(heap, x, a[1], a[2], byMove, FALSE, 0), v)

C10Witness ==
    /\ last.op \in {"PushBack(const&)", "PushBack(&&)", "EmplaceBack"}
    /\ last.path = "grow" /\ vec[last.self].size = 3

\* C11: PushBack, EmplaceBack, Insert and Emplace on a full vector leave
\* Capacity() equal to max(1, 2 * old Size()), and on a vector with room
\* leave it unchanged; three PushBack calls on an empty vector give the
\* capacities 1, 2, 4 and Size() 3.
GrowthDoublesCapacity ==
    /\ \A i \in Callable :
         LET x == vec[i]
             Sized(r) ==
               /\ r.out = "ok"
               /\ r.x.capacity = (IF x.size # x.capacity THEN x.capacity
                                  ELSE IF x.size = 0 THEN 1 ELSE 2 * x.size)
         IN GrowthFits(x, CapBound(i)) =>
              \A a \in Args(x, 0) :
                /\ Sized(PushBack(heap, x, a[1], a[2], byMove, FALSE, 0))
                /\ Sized(PushBackRv(heap, x, a[1], byMove, FALSE, 0))
                /\ Sized(EmplaceBack(heap, x, a[1], a[2], byMove, FALSE, 0))
                /\ \A ind \in 0..x.size :
                     /\ Sized(Insert(heap, x, ind, a[1], a[2], byMove, FALSE, 0))
                     /\ Sized(Emplace(heap, x, ind, a[1], a[2], byMove, FALSE, 0))
    /\ \A i \in Callable :
         vec[i] = EmptyVec =>
           LET p1 == PushBack(heap, vec[i], 1, 0, byMove, FALSE, 0)
               p2 == PushBack(p1.h, p1.x, 1, 0, byMove, FALSE, 0)
               p3 == PushBack(p2.h, p2.x, 1, 0, byMove, FALSE, 0)
           IN /\ <<p1.x.capacity, p2.x.capacity, p3.x.capacity>> = <<1, 2, 4>>
              /\ p3.x.size = 3

C11Witness ==
    /\ last.op = "PushBack(const&)" /\ last.path = "grow"
    /\ vec[last.self].capacity = 4 /\ vec[last.self].size = 3

\* The calls that may not reduce Capacity().
Keeping ==
    {"PushBack(const&)", "PushBack(&&)", "EmplaceBack", "Insert", "Erase",
     "PopBack", "Resize", "Reserve", "operator=(const&)"}

\* C12: no step that is a PushBack, EmplaceBack, Insert, Erase, PopBack,
\* Resize, Reserve or copy assignment on a vector, completed or failed,
\* reduces that vector's Capacity().
CapacityNeverDecreases ==
    [][\A i \in VecIds :
         (last'.op = "failed" \/ (last'.op \in Keeping /\ last'.self = i))
            => vec'[i].capacity >= vec[i].capacity]_vars

C12Witness ==
    /\ last.op = "operator=(const&)" /\ last.path = "shrink" /\ last.self = "a"
    /\ vec["a"].capacity > vec["b"].size /\ vec["b"].size = 1

\* C13: copy assignment a = b of distinct vectors gives a the size and the
\* elements of b and leaves b unchanged.  If b.size > a.capacity it
\* reallocates once, to capacity b.size; otherwise it keeps a's block, and
\* if b.size < a.size it destroys exactly the a.size - b.size surplus
\* elements.
CopyAssignEqualsSource ==
    \A i \in Callable, j \in Callable :
      i # j =>
        LET x == vec[i]
            y == vec[j]
            r == CopyAssign(heap, x, y, FALSE, FALSE, 0)
        IN /\ r.out = "ok" /\ r.faults = {}
           /\ r.x.size = y.size
           /\ Elems(r.h, r.x) = Elems(heap, y)
           /\ r.y = y /\ Block(r.h, y.buffer) = Block(heap, y.buffer)
           /\ WellFormed(r.h, r.x)
           /\ IF y.size > x.capacity
              THEN /\ r.path = "realloc"
                   /\ r.x.capacity = y.size
                   /\ r.x.buffer \notin {Null, y.buffer}
                   /\ x.buffer # Null =>
                        (r.x.buffer # x.buffer /\ r.h[x.buffer] = << >>)
                   /\ r.ctors = y.size /\ r.dtors = x.size
              ELSE /\ r.x.buffer = x.buffer /\ r.x.capacity = x.capacity
                   /\ IF y.size < x.size
                      THEN r.path = "shrink" /\ r.dtors = x.size - y.size /\ r.ctors = 0
                      ELSE r.path = "extend" /\ r.dtors = 0 /\ r.ctors = y.size - x.size

C13Witness ==
    /\ last.op = "operator=(const&)" /\ last.path = "extend" /\ last.self = "a"
    /\ vec["b"].size = 1 /\ vec["a"].capacity >= 2
    /\ Elems(heap, vec["a"]) = <<1>>

\* C14: a copy and its original share no block, after copy construction
\* and after copy assignment, and a mutating call on one vector (element
\* write, PushBack, Insert, Erase, Resize, Reserve, PopBack) leaves the
\* size, capacity and elements of every other vector unchanged.
CopiesAreIndependent ==
    /\ \A i \in VecIds, j \in VecIds :
         (i # j /\ alive[i] /\ alive[j] /\ vec[i].buffer # Null)
            => vec[i].buffer # vec[j].buffer
    /\ \A j \in Callable :
         LET y == vec[j]
             Apart(r) == r.out = "ok" => (r.x.buffer = Null \/ r.x.buffer # y.buffer)
         IN /\ \A i \in VecIds : ~alive[i] => Apart(CopyCtor(heap, y, FALSE, 0))
            /\ \A i \in Callable \ {j} :
                 Apart(CopyAssign(heap, vec[i], y, FALSE, FALSE, 0))
    /\ \A i \in Callable, j \in Callable :
         i # j =>
           LET x == vec[i]
               Frame(r) == Block(r.h, vec[j].buffer) = Block(heap, vec[j].buffer)
           IN /\ \A n \in 0..CapBound(i) :
                   /\ Frame(Reserve(heap, x, n, byMove, FALSE, 0))
                   /\ Frame(Resize(heap, x, n, byMove, FALSE, 0))
              /\ Frame(PopBack(heap, x))
              /\ \A ind \in 0..(x.size - 1) :
                   /\ Frame(Erase(heap, x, ind))
                   /\ \A v \in Values : Frame(AssignAt(heap, x, ind, v))
              /\ GrowthFits(x, CapBound(i)) =>
                   \A a \in Args(x, 0) :
                     /\ Frame(PushBack(heap, x, a[1], a[2], byMove, FALSE, 0))
                     /\ \A ind \in 0..x.size :
                          Frame(Insert(heap, x, ind, a[1], a[2], byMove, FALSE, 0))

C14Witness ==
    /\ last.op = "operator[]" /\ last.self = "a"
    /\ alive["a"] /\ alive["b"] /\ vec["b"].size = 1
    /\ vec["a"].size = 1 /\ Elems(heap, vec["a"]) # Elems(heap, vec["b"])

\* C15: move construction and move assignment from a distinct source give
\* the destination the source's elements, size and capacity and leave the
\* source with size 0, capacity 0 and no block; a PushBack on the source
\* then succeeds and yields size 1, and destroying the source is safe.
MoveLeavesSourceEmpty ==
    \A j \in Callable : \A i \in VecIds \ {j} :
      LET y == vec[j]
          Moved(r) ==
            /\ r.out = "ok" /\ r.faults = {}
            /\ r.x = y /\ Elems(r.h, r.x) = Elems(heap, y)
            /\ r.y = EmptyVec
            /\ Dtor(r.h, r.y).faults = {} /\ Dtor(r.h, r.y).h = r.h
            /\ \A v \in Values :
                 LET p == PushBack(r.h, r.y, v, 0, byMove, FALSE, 0)
                 IN /\ p.out = "ok" /\ p.faults = {}
                    /\ p.x.size = 1 /\ Elems(p.h, p.x) = <<v>>
                    /\ Elems(p.h, r.x) = Elems(heap, y)
      IN /\ ~alive[i] => Moved(MoveCtor(heap, y))
         /\ i \in Callable => Moved(MoveAssign(heap, vec[i], y, FALSE))

C15Witness ==
    /\ last.op = "Vector(&&)" /\ vec[last.self].size = 1
    /\ \E j \in VecIds \ {last.self} : alive[j] /\ vec[j] = EmptyVec

\* C16: Reserve(n) with n <= Capacity() changes nothing; Reserve(n) with
\* n > Capacity() sets Capacity() to n, keeps Size() and the elements,
\* destroys each element of the old block once and releases the old block.
ReserveSetsCapacity ==
    \A i \in Callable : \A n \in 0..CapBound(i) :
      LET x == vec[i]
          r == Reserve(heap, x, n, byMove, FALSE, 0)
      IN /\ r.out = "ok" /\ r.faults = {}
         /\ IF n <= x.capacity
            THEN r.x = x /\ r.h = heap /\ r.ctors = 0 /\ r.dtors = 0
            ELSE /\ r.x.capacity = n /\ r.x.size = x.size
                 /\ Elems(r.h, r.x) = Elems(heap, x)
                 /\ WellFormed(r.h, r.x)
                 /\ r.x.buffer \notin {Null, x.buffer}
                 /\ r.dtors = x.size /\ r.ctors = x.size
                 /\ x.buffer # Null => r.h[x.buffer] = << >>

C16Witness ==
    /\ last.op = "Reserve" /\ last.path = "grow"
    /\ vec[last.self].capacity = 4 /\ vec[last.self].size = 2

\* C17: in every reachable state every vector has 0 <= Size() <=
\* Capacity(), and its storage holds no block exactly when its capacity is
\* 0; a default-constructed, a zero-size-constructed and a moved-from
\* vector have size 0, capacity 0 and no block.
SizeWithinCapacity ==
    /\ \A i \in VecIds :
         LET x == vec[i]
         IN /\ 0 <= x.size /\ x.size <= x.capacity
            /\ x.buffer = Null <=> x.capacity = 0
            /\ alive[i] => Len(Block(heap, x.buffer)) = x.capacity
    /\ last.op = "Vector()" => vec[last.self] = EmptyVec
    /\ Sound =>
         /\ SizedCtor(heap, 0, FALSE).x = EmptyVec
         /\ SizedCtor(heap, 0, FALSE).h = heap
         /\ \A j \in Callable :
              /\ MoveCtor(heap, vec[j]).y = EmptyVec
              /\ \A i \in Callable \ {j} :
                   MoveAssign(heap, vec[i], vec[j], FALSE).y = EmptyVec

C17Witness ==
    /\ last.op = "operator=(&&)" /\ last.path = "move"
    /\ \E i \in VecIds, j \in VecIds :
         /\ alive[i] /\ alive[j]
         /\ vec[i].capacity > 0 /\ vec[i].size < vec[i].capacity
         /\ vec[j] = EmptyVec

\* C18: PopBack on an empty vector changes nothing and destroys nothing;
\* on a non-empty vector it destroys the last element, decrements Size()
\* by one and leaves Capacity() and the other elements unchanged.
PopBackRemovesLast ==
    \A i \in Callable :
      LET x == vec[i]
          r == PopBack(heap, x)
      IN /\ r.out = "ok" /\ r.faults = {} /\ r.ctors = 0
         /\ IF x.size = 0
            THEN r.x = x /\ r.h = heap /\ r.dtors = 0
            ELSE /\ r.dtors = 1
                 /\ r.x.size = x.size - 1
                 /\ r.x.capacity = x.capacity /\ r.x.buffer = x.buffer
                 /\ Elems(r.h, r.x) = SubSeq(Elems(heap, x), 1, x.size - 1)
                 /\ Block(r.h, r.x.buffer)[x.size] = Uninit
                 /\ WellFormed(r.h, r.x)

C18Witness ==
    /\ last.op = "PopBack" /\ last.path = "pop"
    /\ vec[last.self].size = 2 /\ vec[last.self].capacity = 4

\* C19: when the argument of PushBack(const T&) or Insert(pos, const T&)
\* refers to an element of the vector itself, the element appended or
\* inserted equals the value that element had before the call, when the
\* vector grows and when it does not.
SelfReferenceKeepsValue ==
    \A i \in Callable :
      LET x == vec[i]
          s == Elems(heap, x)
      IN GrowthFits(x, CapBound(i)) =>
           \A alias \in 1..x.size :
             /\ LET r == PushBack(heap, x, DefaultVal, alias, byMove, FALSE, 0)
                IN /\ r.out = "ok" /\ r.faults = {}
                   /\ r.path = (IF x.size = x.capacity THEN "grow" ELSE "inplace")
                   /\ s[alias] \in Values
                   /\ Elems(r.h, r.x) = Append(s, s[alias])
             /\ \A ind \in 0..x.size :
                  LET r == Insert(heap, x, ind, DefaultVal, alias, byMove, FALSE, 0)
                  IN /\ r.out = "ok" /\ r.faults = {}
                     /\ Block(r.h, r.x.buffer)[ind + 1] = s[alias]
                     /\ Elems(r.h, r.x) = InsertAt(s, ind, s[alias])

C19Witness ==
    /\ last.aliased /\ last.op = "Insert" /\ last.path = "shift" /\ last.k = 0
    /\ Elems(heap, vec[last.self]) = <<1, 0, 1>>

\* C20: copy-assigning or move-assigning a vector to itself leaves its
\* block, capacity, size and elements unchanged and constructs or destroys
\* no element.
SelfAssignmentChangesNothing ==
    \A i \in Callable :
      LET x == vec[i]
          Same(r) ==
            /\ r.out = "ok" /\ r.path = "self" /\ r.faults = {}
            /\ r.x = x /\ r.y = x /\ r.h = heap
            /\ r.ctors = 0 /\ r.dtors = 0
      IN /\ Same(CopyAssign(heap, x, x, TRUE, FALSE, 0))
         /\ Same(MoveAssign(heap, x, x, TRUE))

C20Witness ==
    /\ last.op = "operator=(&&)" /\ last.path = "self"
    /\ vec[last.self].size = 2

====
